---- MODULE Spec2Model ----
(***************************************************************************)
(* Forecast health monitor (src/monitor.py, class ForecastMonitor).        *)
(*                                                                         *)
(* Time is counted in whole seconds.  A Python str is a record with a      *)
(* field fmt: an ISO-8601 text without offset is Naive(t), one with a 'Z'  *)
(* suffix is Zulu(t), one with '+00:00' is Offset(t); None is a record     *)
(* too, so that every nullable slot compares.  A Python dict is a function *)
(* whose DOMAIN is the set of keys present.                                *)
(***************************************************************************)
EXTENDS Integers, Sequences, FiniteSets, TLC

VARIABLES health_data, file, calls, result, raised, last_outcome, persisted_outcome, app,
          peer, made

vars == <<health_data, file, calls, result, raised, last_outcome, persisted_outcome, app,
          peer, made>>

(* ---- bounds of the model ---- *)
MaxAttempts == 3
MaxStoreAttempts == 3
MaxQueryAttempts == 2
MaxCycles == 2
MaxOrderedAttempts == 4
MaxTwoAttempts == 4

(* ---- constants of the program ---- *)
StaleForecastHours == 12
FreshnessHours == 2
SecondsPerHour == 3600
SecondsPerMinute == 60
RecentOutages == 3

Locations == {"99660", "99591"}
UnknownLocation == "Z"

(* ---- values ---- *)
None == [fmt |-> "None"]
Naive(t) == [fmt |-> "naive", t |-> t]
Zulu(t) == [fmt |-> "Z", t |-> t]
Offset(t) == [fmt |-> "offset", t |-> t]
Text(s) == [fmt |-> "text", s |-> s]

\* Python truthiness of an Optional[str]
Truthy(v) == v.fmt # "None" /\ ~(v.fmt = "text" /\ v.s = "")

\* readings of the wall clock (datetime.utcnow()), which may step back between
\* two calls: 0 and a minute and a half later for record_attempt; the queries
\* are also made two hours and three and a half hours later
RecorderClock == {0, SecondsPerMinute + SecondsPerMinute \div 2}

QueryClock ==
    RecorderClock \cup {FreshnessHours * SecondsPerHour,
                        (FreshnessHours + 1) * SecondsPerHour + SecondsPerHour \div 2}

ForecastInstant == 0 - StaleForecastHours * SecondsPerHour

\* forecast_time arguments: absent, not a timestamp, plain UTC, 'Z'-suffixed
ForecastTimes == {None, Text("garbage"), Naive(ForecastInstant), Zulu(ForecastInstant)}

ErrorMessages == {None, Text("timeout")}

\* the (success, forecast_time, error_message) of the calls made for the first
\* location, and of the plain calls made for every location
AttemptInputs ==
    {[success |-> TRUE, forecast_time |-> ft, error_message |-> None] : ft \in ForecastTimes}
    \cup {[success |-> FALSE, forecast_time |-> None, error_message |-> e] : e \in ErrorMessages}
    \cup {[success |-> FALSE, forecast_time |-> Naive(ForecastInstant),
           error_message |-> Text("timeout")]}

PlainInputs ==
    {[success |-> TRUE, forecast_time |-> None, error_message |-> None],
     [success |-> FALSE, forecast_time |-> None, error_message |-> Text("timeout")]}

\* str.replace('Z', '+00:00')
ReplaceZ(s) == IF s.fmt = "Z" THEN Offset(s.t) ELSE s

\* datetime.isoformat() of a naive datetime
Isoformat(t) == Naive(t)

\* datetime.fromisoformat(s): raises ValueError unless s is ISO-8601; the
\* datetime is aware when the text carries an offset
FromIsoformat(s) ==
    IF s.fmt = "naive" THEN [raises |-> FALSE, aware |-> FALSE, t |-> s.t]
    ELSE IF s.fmt \in {"offset", "Z"} THEN [raises |-> FALSE, aware |-> TRUE, t |-> s.t]
    ELSE [raises |-> TRUE, aware |-> FALSE, t |-> 0]

\* a - b on datetimes: TypeError when exactly one of them is aware
Subtract(a, b) ==
    IF a.raises \/ b.raises \/ a.aware # b.aware
    THEN [raises |-> TRUE, seconds |-> 0]
    ELSE [raises |-> FALSE, seconds |-> a.t - b.t]

\* int(x / d) for d > 0: Python's int() truncates toward zero
IntDiv(x, d) == IF x >= 0 THEN x \div d ELSE 0 - ((0 - x) \div d)

\* dict[k] = v
DictSet(d, k, v) == [x \in DOMAIN d \cup {k} |-> IF x = k THEN v ELSE d[x]]

\* dict.get(k, default)
DictGet(d, k, default) == IF k \in DOMAIN d THEN d[k] ELSE default

EmptyDict == [k \in {} |-> None]

EmptyStore == [keys |-> <<>>, locations |-> EmptyDict, last_updated |-> None]

SeqToSet(s) == {s[i] : i \in 1..Len(s)}

(* ---- 4.1 health store: the JSON document and the health file ---- *)

JNull == [j |-> "null"]
JString(s) == [j |-> "string", v |-> s]
JNumber(n) == [j |-> "number", v |-> n]

CounterKeys == {"total_attempts", "successful_attempts", "failed_attempts", "stale_forecast_count"}

JsonOptStr(v) == IF v.fmt = "None" THEN JNull ELSE JString(v)

ParseOptStr(j) == IF j.j = "null" THEN None ELSE j.v

JsonOutage(o) ==
    [start |-> JsonOptStr(o.start), end |-> JsonOptStr(o.end),
     duration_minutes |-> JNumber(o.duration_minutes)]

ParseOutage(j) ==
    [start |-> ParseOptStr(j.start), end |-> ParseOptStr(j.end),
     duration_minutes |-> j.duration_minutes.v]

\* json.dump of one location record: the keys present, each value by its type
JsonRecord(loc) ==
    [k \in DOMAIN loc |->
        IF k \in CounterKeys THEN JNumber(loc[k])
        ELSE IF k = "outage_history"
             THEN [j |-> "array", v |-> [i \in 1..Len(loc[k]) |-> JsonOutage(loc[k][i])]]
             ELSE JsonOptStr(loc[k])]

ParseRecord(obj) ==
    [k \in DOMAIN obj |->
        IF k \in CounterKeys THEN obj[k].v
        ELSE IF k = "outage_history"
             THEN [i \in 1..Len(obj[k].v) |-> ParseOutage(obj[k].v[i])]
             ELSE ParseOptStr(obj[k])]

\* json.dump(self.health_data, sort_keys=True)
JsonDumpSortedKeys(hd) ==
    LET present(k) == k \in DOMAIN hd.locations
        sorted == SelectSeq(<<"99591", "99660">>, present)
    IN  [locations |-> [i \in 1..Len(sorted) |->
                            [name |-> sorted[i], value |-> JsonRecord(hd.locations[sorted[i]])]],
         last_updated |-> JsonOptStr(hd.last_updated)]

\* json.dump(self.health_data): an object keeps its members in insertion order
JsonDump(hd) ==
    [locations |-> [i \in 1..Len(hd.keys) |->
                        [name |-> hd.keys[i], value |-> JsonRecord(hd.locations[hd.keys[i]])]],
     last_updated |-> JsonOptStr(hd.last_updated)]

\* json.load: the dict is rebuilt member by member
JsonLoad(doc) ==
    [keys |-> [i \in 1..Len(doc.locations) |-> doc.locations[i].name],
     locations |-> [k \in {doc.locations[i].name : i \in 1..Len(doc.locations)} |->
                      ParseRecord(doc.locations[CHOOSE i \in 1..Len(doc.locations) :
                                                   doc.locations[i].name = k].value)],
     last_updated |-> ParseOptStr(doc.last_updated)]

NoDocument == [locations |-> <<>>, last_updated |-> JNull]

\* the health file: absent, present but not openable, present but not JSON
\* (also what a write that stopped part-way leaves), or a whole document
MissingFile == [kind |-> "missing", doc |-> NoDocument]
UnreadableFile == [kind |-> "unreadable", doc |-> NoDocument]
CorruptFile == [kind |-> "corrupt", doc |-> NoDocument]
JsonFile(doc) == [kind |-> "json", doc |-> doc]

\* _load_health_data without the try
LoadHealthDataUncaught(f) ==
    IF f.kind = "missing" THEN [store |-> EmptyStore, raises |-> FALSE]
    ELSE IF f.kind = "json" THEN [store |-> JsonLoad(f.doc), raises |-> FALSE]
    ELSE [store |-> EmptyStore, raises |-> TRUE]

\* _load_health_data: os.path.exists, then open and json.load inside a try
\* whose except passes on to the empty store
LoadHealthData(f) ==
    IF f.kind = "missing" THEN [store |-> EmptyStore, raises |-> FALSE]
    ELSE IF f.kind = "json" THEN [store |-> JsonLoad(f.doc), raises |-> FALSE]
    ELSE [store |-> EmptyStore, raises |-> FALSE]

\* how one open(MONITOR_FILE, 'w') + json.dump can end
SaveOutcomes == {"written", "open_fails", "write_fails"}

\* _save_health_data without the try
SaveHealthDataUncaught(hd, f, outcome) ==
    [file |-> IF outcome = "written" THEN JsonFile(JsonDump(hd))
              ELSE IF outcome = "open_fails" THEN f
              ELSE CorruptFile,
     raises |-> outcome # "written"]

\* _save_health_data: open(.., 'w') truncates the file before anything is
\* written; every exception is caught and printed
SaveHealthData(hd, f, outcome) ==
    [file |-> IF outcome = "written" THEN JsonFile(JsonDump(hd))
              ELSE IF outcome = "open_fails" THEN f
              ELSE CorruptFile,
     raises |-> FALSE]

(* ---- 4.2 attempt recorder ---- *)

NewRecord(now) ==
    [first_seen |-> now, total_attempts |-> 0, successful_attempts |-> 0,
     failed_attempts |-> 0, last_success |-> None, last_failure |-> None,
     current_outage_start |-> None, outage_history |-> <<>>,
     last_forecast_time |-> None, stale_forecast_count |-> 0]

\* _calculate_duration giving the seconds
CalculateDurationInSeconds(start_iso, end_iso) ==
    LET d == Subtract(FromIsoformat(end_iso), FromIsoformat(start_iso))
    IN  IF d.raises THEN 0 ELSE d.seconds

\* _calculate_duration
CalculateDuration(start_iso, end_iso) ==
    LET d == Subtract(FromIsoformat(end_iso), FromIsoformat(start_iso))
    IN  IF d.raises THEN 0 ELSE IntDiv(d.seconds, SecondsPerMinute)

\* the staleness check with the tally started anew by a fresh forecast
StaleCheckResetting(loc, forecast_time, now, now_dt) ==
    LET forecast_dt == FromIsoformat(ReplaceZ(forecast_time))
        age == Subtract([raises |-> FALSE, aware |-> FALSE, t |-> now_dt], forecast_dt)
    IN  IF age.raises THEN [loc |-> loc, raises |-> TRUE]
        ELSE IF age.seconds > StaleForecastHours * SecondsPerHour
             THEN [loc |-> DictSet([loc EXCEPT !.stale_forecast_count = @ + 1],
                                   "last_stale_warning", now),
                   raises |-> FALSE]
             ELSE [loc |-> [loc EXCEPT !.stale_forecast_count = 0], raises |-> FALSE]

\* the body of the try of record_attempt: parse, read the clock again, compare
StaleCheck(loc, forecast_time, now, now_dt) ==
    LET forecast_dt == FromIsoformat(ReplaceZ(forecast_time))
        age == Subtract([raises |-> FALSE, aware |-> FALSE, t |-> now_dt], forecast_dt)
    IN  IF age.raises THEN [loc |-> loc, raises |-> TRUE]
        ELSE IF age.seconds > StaleForecastHours * SecondsPerHour
             THEN [loc |-> DictSet([loc EXCEPT !.stale_forecast_count = @ + 1],
                                   "last_stale_warning", now),
                   raises |-> FALSE]
             ELSE [loc |-> loc, raises |-> FALSE]

\* the staleness check without the try
StaleCheckUncaught(loc, forecast_time, now, now_dt) ==
    StaleCheck(loc, forecast_time, now, now_dt)

\* try: ... except Exception: pass
TryStaleCheck(loc, forecast_time, now, now_dt) ==
    LET r == StaleCheck(loc, forecast_time, now, now_dt)
    IN  IF r.raises THEN [loc |-> loc, raises |-> FALSE] ELSE r

\* OnSuccess with the outage recorded but left open
OnSuccessLeavingOutageOpen(loc, forecast_time, now, now_dt) ==
    LET l1 == [loc EXCEPT !.successful_attempts = @ + 1, !.last_success = now]
        l2 == IF Truthy(forecast_time)
              THEN TryStaleCheck([l1 EXCEPT !.last_forecast_time = forecast_time],
                                 forecast_time, now, now_dt)
              ELSE [loc |-> l1, raises |-> FALSE]
        l3 == IF Truthy(l2.loc.current_outage_start)
              THEN [l2.loc EXCEPT
                      !.outage_history = Append(@,
                          [start |-> l2.loc.current_outage_start, end |-> now,
                           duration_minutes |->
                               CalculateDuration(l2.loc.current_outage_start, now)])]
              ELSE l2.loc
    IN  [loc |-> IF l2.raises THEN l2.loc ELSE l3, raises |-> l2.raises]

\* OnSuccess with the new OutageEvent put at the head of the history
OnSuccessPrepending(loc, forecast_time, now, now_dt) ==
    LET l1 == [loc EXCEPT !.successful_attempts = @ + 1, !.last_success = now]
        l2 == IF Truthy(forecast_time)
              THEN TryStaleCheck([l1 EXCEPT !.last_forecast_time = forecast_time],
                                 forecast_time, now, now_dt)
              ELSE [loc |-> l1, raises |-> FALSE]
        l3 == IF Truthy(l2.loc.current_outage_start)
              THEN [l2.loc EXCEPT
                      !.outage_history =
                          <<[start |-> l2.loc.current_outage_start, end |-> now,
                             duration_minutes |->
                                 CalculateDuration(l2.loc.current_outage_start, now)]>> \o @,
                      !.current_outage_start = None]
              ELSE l2.loc
    IN  [loc |-> IF l2.raises THEN l2.loc ELSE l3, raises |-> l2.raises]

\* the success branch of record_attempt
OnSuccess(loc, forecast_time, now, now_dt) ==
    LET l1 == [loc EXCEPT !.successful_attempts = @ + 1, !.last_success = now]
        l2 == IF Truthy(forecast_time)
              THEN TryStaleCheck([l1 EXCEPT !.last_forecast_time = forecast_time],
                                 forecast_time, now, now_dt)
              ELSE [loc |-> l1, raises |-> FALSE]
        l3 == IF Truthy(l2.loc.current_outage_start)
              THEN [l2.loc EXCEPT
                      !.outage_history = Append(@,
                          [start |-> l2.loc.current_outage_start, end |-> now,
                           duration_minutes |->
                               CalculateDuration(l2.loc.current_outage_start, now)]),
                      !.current_outage_start = None]
              ELSE l2.loc
    IN  [loc |-> IF l2.raises THEN l2.loc ELSE l3, raises |-> l2.raises]

\* OnFailure without the start of the outage
OnFailureOpeningNoOutage(loc, error_message, now) ==
    DictSet([loc EXCEPT !.failed_attempts = @ + 1, !.last_failure = now],
            "last_error", error_message)

\* OnFailure with the failure counted only when it opens an outage
OnFailureCountingOutages(loc, error_message, now) ==
    LET l1 == DictSet([loc EXCEPT !.last_failure = now], "last_error", error_message)
    IN  IF ~Truthy(l1.current_outage_start)
        THEN [l1 EXCEPT !.current_outage_start = now, !.failed_attempts = @ + 1]
        ELSE l1

\* the failure branch of record_attempt
OnFailure(loc, error_message, now) ==
    LET l1 == DictSet([loc EXCEPT !.failed_attempts = @ + 1, !.last_failure = now],
                      "last_error", error_message)
    IN  IF ~Truthy(l1.current_outage_start)
        THEN [l1 EXCEPT !.current_outage_start = now]
        ELSE l1

\* record_attempt keeping in the store only the record it has just updated
RecordAttemptStoreAlone(hd, location, success, forecast_time, error_message, now_t, now_dt) ==
    LET now == Isoformat(now_t)
        known == location \in DOMAIN hd.locations
        loc0 == IF known THEN hd.locations[location] ELSE NewRecord(now)
        loc1 == DictSet([loc0 EXCEPT !.total_attempts = @ + 1], "last_attempt", now)
        r == IF success THEN OnSuccess(loc1, forecast_time, now, now_dt)
             ELSE [loc |-> OnFailure(loc1, error_message, now), raises |-> FALSE]
    IN  [health_data |->
            [keys |-> <<location>>,
             locations |-> DictSet(EmptyDict, location, r.loc),
             last_updated |-> IF r.raises THEN hd.last_updated ELSE now],
         raises |-> r.raises]

\* record_attempt up to the save: the store it leaves in memory.  now_t is
\* the clock reading of the first line, now_dt the one of the staleness check
RecordAttemptStore(hd, location, success, forecast_time, error_message, now_t, now_dt) ==
    LET now == Isoformat(now_t)
        known == location \in DOMAIN hd.locations
        keys == IF known THEN hd.keys ELSE Append(hd.keys, location)
        loc0 == IF known THEN hd.locations[location] ELSE NewRecord(now)
        loc1 == DictSet([loc0 EXCEPT !.total_attempts = @ + 1], "last_attempt", now)
        r == IF success THEN OnSuccess(loc1, forecast_time, now, now_dt)
             ELSE [loc |-> OnFailure(loc1, error_message, now), raises |-> FALSE]
    IN  [health_data |->
            [keys |-> keys,
             locations |-> DictSet(hd.locations, location, r.loc),
             last_updated |-> IF r.raises THEN hd.last_updated ELSE now],
         raises |-> r.raises]

\* whether record_attempt reaches its second datetime.utcnow()
ReadsClockAgain(success, forecast_time) ==
    success /\ Truthy(forecast_time) /\ ~FromIsoformat(ReplaceZ(forecast_time)).raises

(* ---- 4.3 status classifier ---- *)

Msg(text) == [text |-> text]
MsgN(text, n) == [text |-> text, n |-> n]

Returns(v) == [raises |-> FALSE, value |-> v]

\* the dictionaries get_location_status returns
UnknownStatus(text) == [status |-> "unknown", message |-> Msg(text)]

OfflineStatus(loc, now_t) ==
    [status |-> "offline",
     message |-> MsgN("API offline for {} minutes",
                      CalculateDuration(loc.current_outage_start, Isoformat(now_t))),
     outage_start |-> loc.current_outage_start,
     last_error |-> DictGet(loc, "last_error", Text("Unknown error"))]

WarningStatus(loc) ==
    [status |-> "warning",
     message |-> MsgN("API online but serving stale forecasts ({} times)",
                      loc.stale_forecast_count),
     last_success |-> loc.last_success]

OnlineStatus(loc) ==
    [status |-> "online", message |-> Msg("API operating normally"),
     last_success |-> loc.last_success,
     last_forecast_time |-> DictGet(loc, "last_forecast_time", None)]

StaleStatus(loc, seconds) ==
    [status |-> "stale",
     message |-> MsgN("No fresh data for {} hours", IntDiv(seconds, SecondsPerHour)),
     last_success |-> loc.last_success]

\* datetime.utcnow() - datetime.fromisoformat(loc["last_success"])
TimeSince(loc, now_t) ==
    Subtract([raises |-> FALSE, aware |-> FALSE, t |-> now_t], FromIsoformat(loc.last_success))

\* the part of get_location_status under "if loc['last_success']:"
SinceSuccessStatus(loc, now_t) ==
    IF TimeSince(loc, now_t).raises THEN [raises |-> TRUE, value |-> [status |-> "raised"]]
    ELSE IF TimeSince(loc, now_t).seconds < FreshnessHours * SecondsPerHour
    THEN IF DictGet(loc, "stale_forecast_count", 0) > 0
         THEN Returns(WarningStatus(loc))
         ELSE Returns(OnlineStatus(loc))
    ELSE Returns(StaleStatus(loc, TimeSince(loc, now_t).seconds))

\* get_location_status with the last success looked at before the outage
GetLocationStatusSuccessFirst(hd, location, now_t) ==
    IF location \notin DOMAIN hd.locations
    THEN Returns(UnknownStatus("No forecast attempts recorded"))
    ELSE LET loc == hd.locations[location] IN
         IF Truthy(loc.last_success) THEN SinceSuccessStatus(loc, now_t)
         ELSE IF Truthy(loc.current_outage_start) THEN Returns(OfflineStatus(loc, now_t))
         ELSE Returns(UnknownStatus("No successful fetches yet"))

\* get_location_status, evaluated against the clock reading now_t
GetLocationStatusValue(hd, location, now_t) ==
    IF location \notin DOMAIN hd.locations
    THEN Returns(UnknownStatus("No forecast attempts recorded"))
    ELSE LET loc == hd.locations[location] IN
         IF Truthy(loc.current_outage_start) THEN Returns(OfflineStatus(loc, now_t))
         ELSE IF Truthy(loc.last_success) THEN SinceSuccessStatus(loc, now_t)
         ELSE Returns(UnknownStatus("No successful fetches yet"))

\* get_uptime_percentage giving the share of the failed attempts
GetUptimePercentageOfFailures(hd, location) ==
    IF location \notin DOMAIN hd.locations THEN [num |-> 0, den |-> 1]
    ELSE LET loc == hd.locations[location] IN
         IF loc.total_attempts = 0 THEN [num |-> 0, den |-> 1]
         ELSE [num |-> 100 * loc.failed_attempts, den |-> loc.total_attempts]

\* get_uptime_percentage: (successful / total) * 100, kept as the fraction
\* 100 * successful over total; 0.0 is 0 over 1
GetUptimePercentageValue(hd, location) ==
    IF location \notin DOMAIN hd.locations THEN [num |-> 0, den |-> 1]
    ELSE LET loc == hd.locations[location] IN
         IF loc.total_attempts = 0 THEN [num |-> 0, den |-> 1]
         ELSE [num |-> 100 * loc.successful_attempts, den |-> loc.total_attempts]

\* the marker get_alert_summary puts before a location of that status
AlertMarker(status) ==
    IF status = "offline" THEN "red" ELSE IF status = "warning" THEN "warning sign" ELSE "yellow"

RECURSIVE AlertLines(_, _, _, _)
\* the loop of get_alert_summary over the keys from index i on; reads[i] is the
\* clock reading of the i-th call of get_location_status
AlertLines(hd, keys, reads, i) ==
    IF i > Len(keys) THEN <<>>
    ELSE LET st == GetLocationStatusValue(hd, keys[i], reads[i]).value
             rest == AlertLines(hd, keys, reads, i + 1)
         IN  IF st.status \in {"offline", "warning", "stale"}
             THEN <<[marker |-> AlertMarker(st.status), location |-> keys[i],
                     message |-> st.message]>> \o rest
             ELSE rest

\* get_alert_summary going through sorted(self.health_data["locations"])
GetAlertSummarySorted(hd, reads) ==
    LET present(k) == k \in DOMAIN hd.locations
    IN  AlertLines(hd, SelectSeq(<<"99591", "99660">>, present), reads, 1)

\* get_alert_summary: the locations in the dict's (insertion) order
GetAlertSummaryValue(hd, reads) == AlertLines(hd, hd.keys, reads, 1)

(* ---- 4.4 report generator ---- *)

\* the location identifiers in lexicographic order (what sorted() goes by)
LexOrder == <<"99591", "99660">>

InKeys(hd) == LET present(k) == k \in DOMAIN hd.locations IN SelectSeq(LexOrder, present)

\* outage_history[-3:]
LastOutages(h) == SubSeq(h, IF Len(h) > RecentOutages THEN Len(h) - RecentOutages + 1 ELSE 1, Len(h))

\* the lines generate_report writes for one location; now_t is the clock
\* reading of that turn of the loop
LocationBlock(hd, location, now_t) ==
    LET loc == hd.locations[location]
        st == GetLocationStatusValue(hd, location, now_t).value
        b0 == [location |-> location, status |-> st.status, message |-> st.message,
               uptime |-> GetUptimePercentageValue(hd, location),
               total_attempts |-> loc.total_attempts,
               successful |-> loc.successful_attempts,
               failed |-> loc.failed_attempts]
        b1 == IF Truthy(DictGet(loc, "last_forecast_time", None))
              THEN DictSet(b0, "last_forecast_time", loc.last_forecast_time) ELSE b0
        b2 == IF DictGet(loc, "stale_forecast_count", 0) > 0
              THEN DictSet(b1, "stale_forecasts", loc.stale_forecast_count) ELSE b1
        b3 == IF Truthy(DictGet(loc, "last_success", None))
              THEN DictSet(b2, "last_success_minutes",
                           IntDiv(now_t - FromIsoformat(loc.last_success).t, SecondsPerMinute))
              ELSE b2
        b4 == IF Truthy(DictGet(loc, "current_outage_start", None))
              THEN LET b == DictSet(b3, "current_outage_minutes",
                               IntDiv(now_t - FromIsoformat(loc.current_outage_start).t,
                                      SecondsPerMinute))
                   IN  IF Truthy(DictGet(loc, "last_error", None))
                       THEN DictSet(b, "last_error", loc.last_error) ELSE b
              ELSE b3
    IN  IF Len(DictGet(loc, "outage_history", <<>>)) > 0
        THEN DictSet(b4, "recent_outages",
                     [i \in 1..Len(LastOutages(loc.outage_history)) |->
                        [duration_minutes |-> LastOutages(loc.outage_history)[i].duration_minutes,
                         end |-> LastOutages(loc.outage_history)[i].end]])
        ELSE b4

\* generate_report taking the locations as the dict gives them and counting as
\* online the ones the classifier calls online
GenerateReportUnsorted(hd, generated, detail_reads, alert_reads) ==
    IF Len(hd.keys) = 0
    THEN [generated |-> generated, empty |-> TRUE]
    ELSE LET total_locations == Len(hd.keys)
             online_count == Cardinality({i \in 1..Len(hd.keys) :
                                 GetLocationStatusValue(hd, hd.keys[i], detail_reads[i]).value.status
                                    = "online"})
         IN  [generated |-> generated, empty |-> FALSE,
              total_locations |-> total_locations,
              online |-> online_count,
              offline |-> total_locations - online_count,
              details |-> [i \in 1..Len(hd.keys) |-> LocationBlock(hd, hd.keys[i], detail_reads[i])],
              alerts |-> GetAlertSummaryValue(hd, alert_reads)]

\* generate_report: generated is the reading of its first line, detail_reads
\* those of the loop over the sorted keys, alert_reads those of the closing
\* get_alert_summary
GenerateReportValue(hd, generated, detail_reads, alert_reads) ==
    IF Len(hd.keys) = 0
    THEN [generated |-> generated, empty |-> TRUE]
    ELSE LET total_locations == Len(hd.keys)
             online_count == Cardinality({k \in DOMAIN hd.locations :
                                 ~Truthy(DictGet(hd.locations[k], "current_outage_start", None))})
             sorted == InKeys(hd)
         IN  [generated |-> generated, empty |-> FALSE,
              total_locations |-> total_locations,
              online |-> online_count,
              offline |-> total_locations - online_count,
              details |-> [i \in 1..Len(sorted) |-> LocationBlock(hd, sorted[i], detail_reads[i])],
              alerts |-> GetAlertSummaryValue(hd, alert_reads)]

(* ---- freshness check ---- *)

\* the dictionaries handed to check_data_freshness (the properties of a
\* forecast): without 'updated', or with an 'updated' that is null, not a
\* timestamp, plain UTC or 'Z'-suffixed
ForecastPayloads ==
    {[periods |-> <<>>]} \cup {[periods |-> <<>>, updated |-> u] : u \in ForecastTimes}

\* the body of the try of check_data_freshness
FreshnessCheck(forecast_data, now_t) ==
    IF "updated" \in DOMAIN forecast_data
    THEN LET updated_time == FromIsoformat(ReplaceZ(forecast_data.updated))
             age == Subtract([raises |-> FALSE, aware |-> FALSE, t |-> now_t], updated_time)
         IN  IF age.raises THEN [raises |-> TRUE, value |-> TRUE]
             ELSE Returns(age.seconds <= StaleForecastHours * SecondsPerHour)
    ELSE Returns(TRUE)

\* check_data_freshness: try: ... except Exception: return True
CheckDataFreshnessValue(forecast_data, now_t) ==
    IF FreshnessCheck(forecast_data, now_t).raises THEN Returns(TRUE)
    ELSE FreshnessCheck(forecast_data, now_t)

(* ---- the application (src/app.py) ---- *)

\* os.getenv('ZIP_CODES', '99660,99591').split(',')
ZipCodes == <<"99660", "99591">>

\* how the requests for one zip code can end: no forecast URLs, no forecast,
\* or a forecast whose 'updated' is missing or 'Z'-suffixed; and whether the
\* marine text product was got
LocalResults ==
    {[got |-> "no_urls"], [got |-> "no_forecast"]}
    \cup {[got |-> "forecast", updated |-> u] : u \in {None, Zulu(ForecastInstant)}}

FetchResults == {[local |-> l, marine |-> m] : l \in LocalResults, m \in BOOLEAN}

\* the entry fetch_all_forecasts makes for one zip code
ZipData(zip_code, now_t, fetched) ==
    [zip_code |-> zip_code,
     timestamp |-> Isoformat(now_t),
     local_forecast |-> IF fetched.local.got = "forecast"
                        THEN [periods |-> <<>>, updated |-> fetched.local.updated]
                        ELSE None,
     marine_forecast |-> fetched.marine]

\* the fetch attempts made so far for each zip code: how many, how many of
\* them got the local forecast, and the 'updated' of the last one that did
NoFetches == [z \in Locations |-> [attempts |-> 0, successes |-> 0, updated |-> None]]

\* main() before its first cycle: index is the place in zip_codes of the loop
\* of fetch_all_forecasts, results its dictionary, saved the forecasts last
\* written to latest_forecast.json
AppStart ==
    [cycle |-> 0, index |-> 1, results |-> EmptyDict, saved |-> EmptyDict,
     fetched |-> NoFetches]

\* one turn of the loop of fetch_all_forecasts
FetchForecast(now_t, fetched) ==
    /\ app.cycle < MaxCycles
    /\ app.index <= Len(ZipCodes)
    /\ LET zip_code == ZipCodes[app.index]
           ok == fetched.local.got = "forecast"
       IN  app' = [app EXCEPT
                     !.results = DictSet(@, zip_code, ZipData(zip_code, now_t, fetched)),
                     !.index = @ + 1,
                     !.fetched[zip_code] =
                         [attempts |-> @.attempts + 1,
                          successes |-> @.successes + (IF ok THEN 1 ELSE 0),
                          updated |-> IF ok THEN fetched.local.updated ELSE @.updated]]
    /\ UNCHANGED <<health_data, file, calls, result, raised, last_outcome, persisted_outcome,
                   peer, made>>

\* the rest of one turn of the loop of main(): the forecasts are written to
\* the files under /data (or the write raises and the except branch logs it),
\* then the process sleeps until the next cycle
SaveForecasts(written) ==
    /\ app.cycle < MaxCycles
    /\ app.index > Len(ZipCodes)
    /\ app' = [app EXCEPT
                 !.saved = IF written THEN app.results ELSE @,
                 !.cycle = @ + 1,
                 !.index = 1,
                 !.results = EmptyDict]
    /\ UNCHANGED <<health_data, file, calls, result, raised, last_outcome, persisted_outcome,
                   peer, made>>

\* main(): the poll cycles
NextApp ==
    \/ \E now_t \in RecorderClock, fetched \in FetchResults : FetchForecast(now_t, fetched)
    \/ \E written \in BOOLEAN : SaveForecasts(written)

(* ---- the monitor as a state machine ---- *)

\* record_attempt reading the health file again before it updates the store
RecordAttemptCallReloading(hd, f, location, success, forecast_time, error_message, now_t, now_dt, outcome) ==
    LET r == RecordAttemptStore(LoadHealthData(f).store, location, success, forecast_time,
                                error_message, now_t, now_dt)
        sv == SaveHealthData(r.health_data, f, outcome)
    IN  IF r.raises
        THEN [health_data |-> r.health_data, file |-> f, raises |-> TRUE]
        ELSE [health_data |-> r.health_data, file |-> sv.file, raises |-> sv.raises]

\* record_attempt as a whole: the in-memory update, then the save
RecordAttemptCall(hd, f, location, success, forecast_time, error_message, now_t, now_dt, outcome) ==
    LET r == RecordAttemptStore(hd, location, success, forecast_time, error_message, now_t, now_dt)
        sv == SaveHealthData(r.health_data, f, outcome)
    IN  IF r.raises
        THEN [health_data |-> r.health_data, file |-> f, raises |-> TRUE]
        ELSE [health_data |-> r.health_data, file |-> sv.file, raises |-> sv.raises]

NoOutcome == [l \in Locations |-> "none"]

Returned(op) == [op |-> op]

QueryOps == {"get_location_status", "get_uptime_percentage", "get_alert_summary",
             "generate_report"}

\* a second ForecastMonitor over the same health file, not yet constructed
NoPeer == [constructed |-> FALSE, health_data |-> EmptyStore, calls |-> 0,
           last_outcome |-> NoOutcome]

\* the calls whose answer the caller takes
AnswerOps == QueryOps \cup {"check_data_freshness"}

\* no answer of a query is waiting for the caller
Idle == result.op \notin AnswerOps

Init ==
    /\ file \in {MissingFile, UnreadableFile, CorruptFile}
    /\ health_data = LoadHealthData(file).store
    /\ calls = 0
    /\ result = Returned("__init__")
    /\ raised = LoadHealthData(file).raises
    /\ last_outcome = NoOutcome
    /\ persisted_outcome = NoOutcome
    /\ app = AppStart
    /\ peer = NoPeer
    /\ made = [l \in Locations |-> 0]

\* one call of record_attempt; bound is the number of calls the run may make
RecordAttempt(bound, location, success, forecast_time, error_message, now_t, now_dt, outcome) ==
    /\ Idle
    /\ calls < bound
    /\ LET c == RecordAttemptCall(health_data, file, location, success, forecast_time,
                                  error_message, now_t, now_dt, outcome)
       IN  /\ health_data' = c.health_data
           /\ file' = c.file
           /\ raised' = c.raises
           /\ last_outcome' = [last_outcome EXCEPT ![location] =
                                  IF success THEN "success" ELSE "failure"]
           /\ persisted_outcome' =
                IF c.file.kind = "json" /\ outcome = "written" THEN last_outcome'
                ELSE IF c.file = file THEN persisted_outcome
                ELSE NoOutcome
    /\ calls' = calls + 1
    /\ result' = [op |-> "record_attempt", location |-> location, success |-> success,
                  forecast_time |-> forecast_time, error_message |-> error_message,
                  now |-> now_t, now_dt |-> now_dt, outcome |-> outcome]
    /\ made' = [made EXCEPT ![location] = @ + 1]
    /\ UNCHANGED <<app, peer>>

\* the process ends and a new ForecastMonitor() is constructed
Restart ==
    /\ Idle
    /\ health_data' = LoadHealthData(file).store
    /\ raised' = LoadHealthData(file).raises
    /\ last_outcome' = IF file.kind = "json" THEN persisted_outcome ELSE NoOutcome
    /\ result' = Returned("__init__")
    /\ UNCHANGED <<file, calls, persisted_outcome, app, peer, made>>

\* another process constructs its ForecastMonitor() over the same health file
ConstructPeer ==
    /\ Idle
    /\ ~peer.constructed
    /\ peer' = [constructed |-> TRUE, health_data |-> LoadHealthData(file).store, calls |-> 0,
                last_outcome |-> IF file.kind = "json" THEN persisted_outcome ELSE NoOutcome]
    /\ raised' = LoadHealthData(file).raises
    /\ result' = Returned("peer.__init__")
    /\ UNCHANGED <<health_data, file, calls, last_outcome, persisted_outcome, app, made>>

\* one call of record_attempt on the other process's monitor: it updates that
\* monitor's store and writes it over the health file
PeerRecordAttempt(bound, location, success, forecast_time, error_message, now_t, now_dt, outcome) ==
    /\ Idle
    /\ peer.constructed
    /\ calls + peer.calls < bound
    /\ \E c \in {RecordAttemptCall(peer.health_data, file, location, success, forecast_time,
                                    error_message, now_t, now_dt, outcome)} :
       \E lo \in {[peer.last_outcome EXCEPT ![location] =
                      IF success THEN "success" ELSE "failure"]} :
           /\ peer' = [peer EXCEPT !.health_data = c.health_data, !.calls = @ + 1,
                                   !.last_outcome = lo]
           /\ file' = c.file
           /\ raised' = c.raises
           /\ persisted_outcome' =
                IF c.file.kind = "json" /\ outcome = "written" THEN lo
                ELSE IF c.file = file THEN persisted_outcome
                ELSE NoOutcome
    /\ made' = [made EXCEPT ![location] = @ + 1]
    /\ result' = [op |-> "peer.record_attempt", location |-> location, success |-> success,
                  forecast_time |-> forecast_time, error_message |-> error_message,
                  now |-> now_t, now_dt |-> now_dt, outcome |-> outcome]
    /\ UNCHANGED <<health_data, calls, last_outcome, app>>

\* get_location_status making the record it does not find
GetLocationStatusMakingRecord(location, now_t) ==
    /\ Idle
    /\ LET r == GetLocationStatusValue(health_data, location, now_t)
       IN  /\ raised' = r.raises
           /\ result' = [op |-> "get_location_status", location |-> location,
                         now |-> now_t, value |-> r.value]
    /\ health_data' =
          IF location \in DOMAIN health_data.locations THEN health_data
          ELSE [health_data EXCEPT
                  !.keys = Append(@, location),
                  !.locations = DictSet(@, location, NewRecord(Isoformat(now_t)))]
    /\ UNCHANGED <<file, calls, last_outcome, persisted_outcome, app, peer, made>>

GetLocationStatus(location, now_t) ==
    /\ Idle
    /\ LET r == GetLocationStatusValue(health_data, location, now_t)
       IN  /\ raised' = r.raises
           /\ result' = [op |-> "get_location_status", location |-> location,
                         now |-> now_t, value |-> r.value]
    /\ UNCHANGED <<health_data, file, calls, last_outcome, persisted_outcome, app, peer, made>>

GetUptimePercentage(location) ==
    /\ Idle
    /\ raised' = FALSE
    /\ result' = [op |-> "get_uptime_percentage", location |-> location,
                  value |-> GetUptimePercentageValue(health_data, location)]
    /\ UNCHANGED <<health_data, file, calls, last_outcome, persisted_outcome, app, peer, made>>

GetAlertSummary(reads) ==
    /\ Idle
    /\ raised' = FALSE
    /\ result' = [op |-> "get_alert_summary", reads |-> reads,
                  value |-> GetAlertSummaryValue(health_data, reads)]
    /\ UNCHANGED <<health_data, file, calls, last_outcome, persisted_outcome, app, peer, made>>

GenerateReport(generated, detail_reads, alert_reads) ==
    /\ Idle
    /\ raised' = FALSE
    /\ result' = [op |-> "generate_report", detail_reads |-> detail_reads,
                  alert_reads |-> alert_reads,
                  value |-> GenerateReportValue(health_data, generated, detail_reads, alert_reads)]
    /\ UNCHANGED <<health_data, file, calls, last_outcome, persisted_outcome, app, peer, made>>

CheckDataFreshness(forecast_data, now_t) ==
    /\ Idle
    /\ LET r == CheckDataFreshnessValue(forecast_data, now_t)
       IN  /\ raised' = r.raises
           /\ result' = [op |-> "check_data_freshness", forecast_data |-> forecast_data,
                         now |-> now_t, fresh |-> r.value]
    /\ UNCHANGED <<health_data, file, calls, last_outcome, persisted_outcome, app, peer, made>>

\* the caller takes the answer of a query (save_report writes the report it
\* got to the report file); the monitor itself is left as it is
TakeResult ==
    /\ ~Idle
    /\ result' = Returned("taken")
    /\ UNCHANGED <<health_data, file, calls, raised, last_outcome, persisted_outcome, app, peer, made>>

\* one clock reading for each turn of a loop over the locations
Reads == [1..Len(health_data.keys) -> QueryClock]

SameReads(t) == [i \in 1..Len(health_data.keys) |-> t]

FirstLocation == "99660"

\* every kind of attempt for the first location, the plain ones for the others
InputsFor(location) == IF location = FirstLocation THEN AttemptInputs ELSE PlainInputs

ClockFor(location) == IF location = FirstLocation THEN RecorderClock ELSE {0}

\* second readings of the clock inside record_attempt
SecondReading(in, now_t) ==
    IF ReadsClockAgain(in.success, in.forecast_time) THEN RecorderClock ELSE {now_t}

\* the calls of record_attempt a run makes when every write succeeds
Attempts(bound) ==
    \E location \in Locations : \E in \in InputsFor(location), now_t \in ClockFor(location) :
       \E now_dt \in SecondReading(in, now_t) :
          RecordAttempt(bound, location, in.success, in.forecast_time,
                        in.error_message, now_t, now_dt, "written")

\* the recorder with a health file that is always written
Next ==
    \/ Attempts(MaxAttempts)
    \/ Restart

Spec == Init /\ [][Next]_vars

\* the recorder with a health file whose writes can fail
NextStore ==
    \/ \E location \in Locations : \E in \in PlainInputs, now_t \in ClockFor(location),
          outcome \in SaveOutcomes :
          RecordAttempt(MaxStoreAttempts, location, in.success, in.forecast_time,
                        in.error_message, now_t, now_t, outcome)
    \/ Restart

SpecStore == Init /\ [][NextStore]_vars

\* the recorder and the queries made of it
NextQuery ==
    \/ Attempts(MaxQueryAttempts)
    \/ \E location \in Locations \cup {UnknownLocation}, now_t \in QueryClock :
          GetLocationStatus(location, now_t)
    \/ \E location \in Locations \cup {UnknownLocation} : GetUptimePercentage(location)
    \/ \E reads \in Reads : GetAlertSummary(reads)
    \/ \E t1 \in QueryClock, t2 \in QueryClock :
          GenerateReport(t1, SameReads(t1), SameReads(t2))
    \/ \E forecast_data \in ForecastPayloads, now_t \in QueryClock :
          CheckDataFreshness(forecast_data, now_t)
    \/ TakeResult

SpecQuery == Init /\ [][NextQuery]_vars

\* two processes, each with its own monitor over the one health file, whose
\* calls of record_attempt interleave without a lock
NextTwo ==
    \/ \E location \in Locations : \E in \in PlainInputs :
          /\ calls + peer.calls < MaxTwoAttempts
          /\ RecordAttempt(MaxTwoAttempts, location, in.success, in.forecast_time,
                           in.error_message, 0, 0, "written")
    \/ ConstructPeer
    \/ \E location \in Locations : \E in \in PlainInputs :
          PeerRecordAttempt(MaxTwoAttempts, location, in.success, in.forecast_time,
                            in.error_message, 0, 0, "written")
    \/ Restart

SpecTwo == Init /\ [][NextTwo]_vars

\* datetime.utcnow() of this call is not before the one of the call before it
\* (last_updated is the reading of the last call)
NotBefore(now_t) ==
    IF health_data.last_updated = None THEN TRUE ELSE now_t >= health_data.last_updated.t

\* the recorder under a clock that never steps back
NextOrdered ==
    \/ \E location \in Locations : \E in \in PlainInputs, now_t \in RecorderClock :
          /\ NotBefore(now_t)
          /\ RecordAttempt(MaxOrderedAttempts, location, in.success, in.forecast_time,
                           in.error_message, now_t, now_t, "written")
    \/ Restart

SpecOrdered == Init /\ [][NextOrdered]_vars

\* the application as src/app.py runs it
SpecApp == Init /\ [][NextApp]_vars

(* ---- the claims ---- *)

\* a field of location l's record in store hd, or default when l has no record
Field(hd, l, k, default) ==
    IF l \in DOMAIN hd.locations THEN DictGet(hd.locations[l], k, default) ELSE default

\* this step is a call of record_attempt; result' holds its arguments
AttemptStep == calls' = calls + 1

TallyConsistent ==
    \A l \in DOMAIN health_data.locations :
        health_data.locations[l].total_attempts =
            health_data.locations[l].successful_attempts
            + health_data.locations[l].failed_attempts

TallyStep ==
    AttemptStep =>
        LET l == result'.location
            succ == IF result'.success THEN 1 ELSE 0
        IN  /\ Field(health_data', l, "total_attempts", 0)
                 = Field(health_data, l, "total_attempts", 0) + 1
            /\ Field(health_data', l, "successful_attempts", 0)
                 = Field(health_data, l, "successful_attempts", 0) + succ
            /\ Field(health_data', l, "failed_attempts", 0)
                 = Field(health_data, l, "failed_attempts", 0) + (1 - succ)

\* C1: every record_attempt call adds exactly 1 to the location's
\* total_attempts and exactly 1 to successful_attempts (success) or to
\* failed_attempts (failure), so total_attempts = successful_attempts +
\* failed_attempts in every reachable state; a call identical to the one
\* before it is counted again.
C1_EachCallCounted == []TallyConsistent /\ [][TallyStep]_vars

\* two calls with the same arguments at the same clock reading, both counted
C1_Witness ==
    /\ result.op = "record_attempt"
    /\ Field(health_data, result.location, "total_attempts", 0) = 2
    /\ Field(health_data, result.location, "successful_attempts", 0) = 2
    /\ Field(health_data, result.location, "first_seen", None) = Isoformat(result.now)
    /\ Field(health_data, result.location, "last_forecast_time", None) = None

\* what one record_attempt call does to the location's outage, with
\* minutes(start, end) the duration an OutageEvent is to carry
OutageStep(minutes(_, _)) ==
    AttemptStep =>
        LET l == result'.location
            now == Isoformat(result'.now)
            open == Field(health_data, l, "current_outage_start", None)
            history == Field(health_data, l, "outage_history", <<>>)
            open_after == Field(health_data', l, "current_outage_start", None)
            history_after == Field(health_data', l, "outage_history", <<>>)
        IN  IF ~result'.success
            THEN /\ open_after = (IF open = None THEN now ELSE open)
                 /\ history_after = history
            ELSE /\ open_after = None
                 /\ history_after =
                      IF open = None THEN history
                      ELSE Append(history, [start |-> open, end |-> now,
                                            duration_minutes |-> minutes(open, now)])

FloorMinutes(start, end) == (end.t - start.t) \div SecondsPerMinute

TruncatedMinutes(start, end) == IntDiv(end.t - start.t, SecondsPerMinute)

C3_OutageOpenIffLastFailed ==
    \A l \in DOMAIN health_data.locations :
        /\ last_outcome[l] \in {"success", "failure"}
        /\ health_data.locations[l].current_outage_start = None
             <=> last_outcome[l] = "success"
        /\ health_data.locations[l].current_outage_start # None
             <=> last_outcome[l] = "failure"

\* down again after an outage that was closed, in a monitor built from the file
C3_Witness ==
    /\ result.op = "__init__"
    /\ \E l \in DOMAIN health_data.locations :
          /\ last_outcome[l] = "failure"
          /\ health_data.locations[l].current_outage_start # None
          /\ Len(health_data.locations[l].outage_history) = 1

\* the status the decision order of the classifier gives location l at now_t
ClaimedStatus(hd, l, now_t) ==
    LET open == Field(hd, l, "current_outage_start", None)
        last_success == Field(hd, l, "last_success", None)
        stale_count == Field(hd, l, "stale_forecast_count", 0)
        elapsed == now_t - last_success.t
    IN  IF l \notin DOMAIN hd.locations
        THEN [status |-> "unknown", message |-> Msg("No forecast attempts recorded")]
        ELSE IF open # None
        THEN [status |-> "offline"]
        ELSE IF last_success # None /\ elapsed < FreshnessHours * SecondsPerHour
        THEN [status |-> IF stale_count > 0 THEN "warning" ELSE "online"]
        ELSE IF last_success # None
        THEN [status |-> "stale",
              message |-> MsgN("No fresh data for {} hours", elapsed \div SecondsPerHour)]
        ELSE [status |-> "unknown", message |-> Msg("No successful fetches yet")]

\* C4: get_location_status returns the status of the first matching rule:
\* no record -> unknown (No forecast attempts recorded); current_outage_start
\* set -> offline; last_success less than 2 hours old -> warning if
\* stale_forecast_count > 0, else online; last_success 2 hours old or more ->
\* stale with the whole hours elapsed; otherwise unknown (No successful
\* fetches yet).
C4_FirstMatchingRule ==
    result.op = "get_location_status" =>
        LET claimed == ClaimedStatus(health_data, result.location, result.now)
        IN  /\ ~raised
            /\ result.value.status = claimed.status
            /\ "message" \in DOMAIN claimed => result.value.message = claimed.message

\* offline although the last success is recent and a stale forecast was counted
C4_Witness ==
    /\ result.op = "get_location_status"
    /\ result.value.status = "offline"
    /\ Field(health_data, result.location, "stale_forecast_count", 0) > 0
    /\ Field(health_data, result.location, "last_success", None) # None
    /\ result.now - Field(health_data, result.location, "last_success", None).t
         < FreshnessHours * SecondsPerHour

StaleTallyStep ==
    (AttemptStep /\ result'.now_dt = result'.now) =>
        LET l == result'.location
            ft == result'.forecast_time
            old == /\ ft.fmt \in {"naive", "Z"}
                   /\ result'.now - ft.t > StaleForecastHours * SecondsPerHour
            count == Field(health_data, l, "stale_forecast_count", 0)
            count_after == Field(health_data', l, "stale_forecast_count", 0)
        IN  IF result'.success /\ old
            THEN /\ count_after = count + 1
                 /\ Field(health_data', l, "last_stale_warning", None) = Isoformat(result'.now)
            ELSE count_after = count

\* C5: a successful record_attempt whose forecast_time parses (plain UTC or
\* with a 'Z' suffix) and is more than 12 hours before now adds 1 to
\* stale_forecast_count and sets last_stale_warning = now; every other call
\* leaves stale_forecast_count as it was.  (Stated for the calls during which
\* the clock does not move.)
C5_StaleForecastTallied == [][StaleTallyStep]_vars

RoundTripStep ==
    /\ AttemptStep =>
          /\ health_data'.last_updated = Isoformat(result'.now)
          /\ result'.outcome = "written" =>
                /\ file'.kind = "json"
                /\ LoadHealthData(file') = [store |-> health_data', raises |-> FALSE]
    /\ (result.op = "record_attempt" /\ result.outcome = "written" /\ result'.op = "__init__") =>
          health_data' = health_data
    /\ (AttemptStep /\ result.op = "__init__" /\ result'.success
          /\ Field(health_data, result'.location, "current_outage_start", None) # None) =>
          LET history == health_data'.locations[result'.location].outage_history
          IN  /\ Len(history) = Len(Field(health_data, result'.location, "outage_history", <<>>)) + 1
              /\ history[Len(history)].start
                   = Field(health_data, result'.location, "current_outage_start", None)
              /\ health_data'.locations[result'.location].total_attempts
                   = Field(health_data, result'.location, "total_attempts", 0) + 1

\* C6: every record_attempt call sets last_updated to now and, when the
\* write succeeds, leaves a file from which a new monitor loads a store equal
\* to the one in memory; a monitor constructed after a written call has that
\* call's store, and the first success after a restart closes the outage the
\* file held open, with its start, the counters going on from the file's.
C6_StoreSurvivesRestart == [][RoundTripStep]_vars

\* a new monitor, built from the file, holds two locations and an open outage
C6_Witness ==
    /\ result.op = "__init__"
    /\ file.kind = "json"
    /\ health_data.keys = <<"99660", "99591">>
    /\ health_data.locations["99660"].current_outage_start = Isoformat(0)
    /\ health_data.last_updated # None

\* C7: constructing the monitor never raises, and over a health file that is
\* missing, unreadable or not JSON the store is the empty store.
C7_EmptyStoreWhenFileUnusable ==
    result.op = "__init__" =>
        /\ ~raised
        /\ file.kind \in {"missing", "unreadable", "corrupt"} => health_data = EmptyStore

\* a monitor constructed over the file a broken write left behind
C7_Witness ==
    /\ result.op = "__init__"
    /\ file.kind = "corrupt"
    /\ calls > 0
    /\ health_data = EmptyStore

FailedWriteStep ==
    (AttemptStep /\ result'.outcome # "written") =>
        LET l == result'.location
            written == RecordAttemptCall(health_data, file, l, result'.success,
                                         result'.forecast_time, result'.error_message,
                                         result'.now, result'.now_dt, "written")
        IN  /\ ~raised'
            /\ health_data' = written.health_data
            /\ health_data'.last_updated = Isoformat(result'.now)
            /\ health_data'.locations[l].last_attempt = Isoformat(result'.now)
            /\ health_data'.locations[l].total_attempts
                 = Field(health_data, l, "total_attempts", 0) + 1

\* C8: when the write fails during record_attempt the call returns normally
\* and the store in memory is the one a written call leaves (the record and
\* last_updated carry the attempt); the next calls go on from it.
C8_FailedWriteSwallowed == [][FailedWriteStep]_vars

\* the second attempt counted in memory while the file is broken
C8_Witness ==
    /\ result.op = "record_attempt"
    /\ result.outcome = "write_fails"
    /\ file.kind = "corrupt"
    /\ ~raised
    /\ health_data.locations[result.location].total_attempts = 2

MalformedTimeStep ==
    AttemptStep =>
        /\ ~raised'
        /\ (result'.success /\ result'.forecast_time = Text("garbage")) =>
              LET l == result'.location
                  now == Isoformat(result'.now)
                  open == Field(health_data, l, "current_outage_start", None)
                  after == health_data'.locations[l]
              IN  /\ after.stale_forecast_count = Field(health_data, l, "stale_forecast_count", 0)
                  /\ after.total_attempts = Field(health_data, l, "total_attempts", 0) + 1
                  /\ after.successful_attempts
                       = Field(health_data, l, "successful_attempts", 0) + 1
                  /\ after.last_attempt = now
                  /\ after.last_success = now
                  /\ after.current_outage_start = None
                  /\ open # None =>
                        after.outage_history =
                            Append(Field(health_data, l, "outage_history", <<>>),
                                   [start |-> open, end |-> now,
                                    duration_minutes |-> TruncatedMinutes(open, now)])
                  /\ health_data'.last_updated = now
                  /\ file' = JsonFile(JsonDump(health_data'))

\* C9: record_attempt never raises; a success with an unparseable
\* forecast_time skips only the staleness tally: total_attempts,
\* successful_attempts, last_attempt, last_success, the closing of an open
\* outage, last_updated and the save are all applied.
C9_MalformedTimeOnlySkipsTally == [][MalformedTimeStep]_vars

\* a success with an unparseable forecast_time closed an outage
C9_Witness ==
    /\ result.op = "record_attempt"
    /\ result.success
    /\ result.forecast_time = Text("garbage")
    /\ ~raised
    /\ Len(health_data.locations[result.location].outage_history) = 1
    /\ health_data.locations[result.location].outage_history[1].end = Isoformat(result.now)

QueryStep == result'.op \in QueryOps => UNCHANGED <<health_data, file>>

\* C10: get_location_status, get_uptime_percentage, get_alert_summary and
\* generate_report leave the store and the health file as they are, also for
\* a location that has no record.
C10_QueriesReadOnly == [][QueryStep]_vars

\* the status of a location without a record was asked of a store that has
\* records, and none was made for it
C10_Witness ==
    /\ result.op = "get_location_status"
    /\ result.location = UnknownLocation
    /\ result.value.status = "unknown"
    /\ Len(health_data.keys) = 2
    /\ UnknownLocation \notin DOMAIN health_data.locations

UptimeAsClaimed ==
    result.op = "get_uptime_percentage" =>
        LET l == result.location
            total == Field(health_data, l, "total_attempts", 0)
            successful == Field(health_data, l, "successful_attempts", 0)
            v == result.value
        IN  /\ ~raised
            /\ v.den > 0
            /\ 0 <= v.num /\ v.num <= 100 * v.den
            /\ (l \notin DOMAIN health_data.locations \/ total = 0) => v.num = 0
            /\ total > 0 => v.num * total = 100 * successful * v.den

\* C11: for every location identifier get_uptime_percentage is 100 *
\* successful_attempts / total_attempts, lies between 0 and 100, and is 0 for
\* a location without a record or without attempts; nothing is divided by 0.
C11_UptimePercentage == UptimeAsClaimed

\* one success in two attempts: 50 percent
C11_Witness ==
    /\ result.op = "get_uptime_percentage"
    /\ Field(health_data, result.location, "total_attempts", 0) = 2
    /\ Field(health_data, result.location, "successful_attempts", 0) = 1
    /\ result.value.num = 50 * result.value.den

AlertStatuses == {"offline", "warning", "stale"}

\* the status get_alert_summary found for the i-th location of the store
StatusInSummary(i) ==
    GetLocationStatusValue(health_data, health_data.keys[i], result.reads[i]).value.status

\* the place of location l in the order the locations were first recorded
PlaceOf(l) == CHOOSE i \in 1..Len(health_data.keys) : health_data.keys[i] = l

AlertSummaryAsClaimed ==
    result.op = "get_alert_summary" =>
        LET lines == result.value
        IN  /\ \A i \in 1..Len(health_data.keys) :
                  Cardinality({j \in 1..Len(lines) : lines[j].location = health_data.keys[i]})
                     = IF StatusInSummary(i) \in AlertStatuses THEN 1 ELSE 0
            /\ \A j \in 1..Len(lines) : lines[j].location \in DOMAIN health_data.locations
            /\ \A j, k \in 1..Len(lines) :
                  /\ j < k => PlaceOf(lines[j].location) < PlaceOf(lines[k].location)
                  /\ lines[j].marker = lines[k].marker
                       <=> StatusInSummary(PlaceOf(lines[j].location))
                             = StatusInSummary(PlaceOf(lines[k].location))

\* C12: get_alert_summary returns exactly one line for each location whose
\* status is offline, warning or stale and none for a location that is online
\* or unknown; the marker of a line tells the status (one marker per status),
\* and the lines are in the order in which the locations were first recorded.
C12_AlertSummary == AlertSummaryAsClaimed

\* two alerts of different status, in an insertion order that is not the
\* sorted one
C12_Witness ==
    /\ result.op = "get_alert_summary"
    /\ health_data.keys = <<"99660", "99591">>
    /\ Len(result.value) = 2
    /\ result.value[1].location = "99660"
    /\ result.value[1].marker # result.value[2].marker

\* the place of a location identifier in lexicographic order
LexPlace(l) == CHOOSE i \in 1..Len(LexOrder) : LexOrder[i] = l

ReportCountsAsClaimed ==
    (result.op = "generate_report" /\ ~result.value.empty) =>
        LET r == result.value
            records == DOMAIN health_data.locations
            unset == {l \in records : health_data.locations[l].current_outage_start = None}
        IN  /\ r.total_locations = Cardinality(records)
            /\ r.online = Cardinality(unset)
            /\ r.offline = Cardinality(records \ unset)
            /\ r.online + r.offline = r.total_locations
            /\ Len(r.details) = Cardinality(records)
            /\ \A l \in records :
                  Cardinality({i \in 1..Len(r.details) : r.details[i].location = l}) = 1
            /\ \A i, j \in 1..Len(r.details) :
                  i < j => LexPlace(r.details[i].location) < LexPlace(r.details[j].location)

\* C13: in the overall summary of generate_report, Online is the number of
\* records whose current_outage_start is unset (whatever the classifier calls
\* them), Offline the number of records whose current_outage_start is set,
\* and Online + Offline = Total Locations; the per-location blocks come once
\* per record, in lexicographic order of the location identifier.
C13_ReportCounts == ReportCountsAsClaimed

\* a record the classifier calls stale is counted Online, and the blocks are
\* in sorted order where the insertion order is the other one
C13_Witness ==
    /\ result.op = "generate_report"
    /\ ~result.value.empty
    /\ health_data.keys = <<"99660", "99591">>
    /\ result.value.online = 1
    /\ result.value.offline = 1
    /\ result.value.details[1].location = "99591"
    /\ result.value.details[1].status = "offline"
    /\ result.value.details[2].status = "stale"

FreshnessAsClaimed ==
    result.op = "check_data_freshness" =>
        LET d == result.forecast_data
            parseable == "updated" \in DOMAIN d /\ d.updated.fmt \in {"naive", "Z"}
        IN  /\ ~raised
            /\ result.fresh =
                 IF parseable
                 THEN result.now - d.updated.t <= StaleForecastHours * SecondsPerHour
                 ELSE TRUE

\* C14: check_data_freshness never raises; it returns true when the payload
\* has no 'updated' field or the field does not parse, false when the field
\* parses (plain UTC or with a 'Z' suffix) and is more than 12 hours old, and
\* true when it parses and is at most 12 hours old.
C14_FreshnessFlag == FreshnessAsClaimed

\* the poll cycle has made all its fetches
CycleFetched == app.index > Len(ZipCodes)

FetchesRecorded ==
    CycleFetched =>
        \A z \in Locations :
            /\ Field(health_data, z, "total_attempts", 0) = app.fetched[z].attempts
            /\ Field(health_data, z, "successful_attempts", 0) = app.fetched[z].successes
            /\ app.fetched[z].successes > 0 =>
                  Field(health_data, z, "last_forecast_time", None) = app.fetched[z].updated

\* C15: in every poll cycle of the application, each forecast fetch attempt
\* is followed by exactly one record_attempt call with the location's
\* identifier and the attempt's success flag and, on success, with the
\* forecast's own 'updated' as forecast_time: once a cycle has made its
\* fetches, the store has counted them, location by location.
C15_EveryFetchRecorded == FetchesRecorded

SingleReadingStep ==
    AttemptStep =>
        LET l == result'.location
            count == Field(health_data, l, "stale_forecast_count", 0)
            count_after == Field(health_data', l, "stale_forecast_count", 0)
            rec == health_data'.locations[l]
            now == Isoformat(result'.now)
        IN  /\ rec.last_attempt = now
            /\ health_data'.last_updated = now
            /\ result'.success => rec.last_success = now
            /\ ~result'.success => rec.last_failure = now
            /\ count_after # count =>
                  /\ rec.last_stale_warning = now
                  /\ rec.last_stale_warning.t - result'.forecast_time.t
                       > StaleForecastHours * SecondsPerHour

\* C16: a record_attempt call uses one reading of the clock for every
\* timestamp it writes and for the 12-hour comparison, so whenever a call
\* adds to stale_forecast_count the last_stale_warning it writes is more than
\* 12 hours after forecast_time, also when the clock advances during the call.
C16_SingleClockReading == [][SingleReadingStep]_vars

OfflineMessageAsClaimed ==
    (result.op = "get_location_status" /\ result.value.status = "offline") =>
        LET loc == health_data.locations[result.location]
            message == result.value.message
        IN  /\ message.n = IntDiv(result.now - loc.current_outage_start.t, SecondsPerMinute)
            /\ Truthy(loc.last_error) =>
                  "error" \in DOMAIN message /\ message.error = loc.last_error

\* C17: whenever get_location_status returns offline, its message contains
\* the whole minutes elapsed since current_outage_start (0 right after the
\* first failure, more as the clock advances) and the error_message of the
\* most recent failed attempt.
C17_OfflineMessage == OfflineMessageAsClaimed

\* forecast_time is present and is a timestamp
Parseable(forecast_time) == forecast_time.fmt \in {"naive", "Z", "offset"}

LastForecastTimeStep ==
    AttemptStep =>
        LET l == result'.location
            before == Field(health_data, l, "last_forecast_time", None)
            after == Field(health_data', l, "last_forecast_time", None)
        IN  /\ after = IF result'.success /\ Parseable(result'.forecast_time)
                       THEN result'.forecast_time
                       ELSE before
            /\ after = None \/ Parseable(after)

\* C18: a successful record_attempt stores forecast_time into
\* last_forecast_time only if it is present and parses as a timestamp; a
\* success with an absent or unparseable forecast_time, and every failure,
\* leaves last_forecast_time as it was, so that last_forecast_time is always
\* null or a parseable timestamp.
C18_LastForecastTimeParses == [][LastForecastTimeStep]_vars

\* sequence s is the beginning of sequence t
IsPrefix(s, t) == Len(s) <= Len(t) /\ \A i \in 1..Len(s) : t[i] = s[i]

FrameStep ==
    AttemptStep =>
        LET l == result'.location
            before == health_data.locations
            after == health_data'.locations
        IN  /\ DOMAIN before \subseteq DOMAIN after
            /\ DOMAIN after = DOMAIN before \cup {l}
            /\ IsPrefix(health_data.keys, health_data'.keys)
            /\ \A other \in DOMAIN before \ {l} : after[other] = before[other]
            /\ l \in DOMAIN before =>
                  /\ after[l].first_seen = before[l].first_seen
                  /\ IsPrefix(before[l].outage_history, after[l].outage_history)
                  /\ Len(after[l].outage_history) <= Len(before[l].outage_history) + 1
            /\ l \notin DOMAIN before => after[l].first_seen = Isoformat(result'.now)

StatusFollowsLastAttempt ==
    result.op = "get_location_status" =>
        /\ result.value.message # Msg("No successful fetches yet")
        /\ result.location \in DOMAIN health_data.locations =>
              /\ last_outcome[result.location] \in {"success", "failure"}
              /\ result.value.status = "offline"
                    <=> last_outcome[result.location] = "failure"
              /\ result.value.status \in {"online", "warning", "stale"}
                    <=> last_outcome[result.location] = "success"

\* C20: in every state reached from the empty store by record_attempt calls,
\* get_location_status never answers 'No successful fetches yet': a record
\* that never succeeded has an open outage and is offline; for an existing
\* record the status is offline iff its last attempt failed, and one of
\* online, warning, stale iff its last attempt succeeded.
C20_NeverNoSuccessfulFetches == StatusFollowsLastAttempt

\* a record with failures only, asked for its status hours later: offline
C20_Witness ==
    /\ result.op = "get_location_status"
    /\ result.location \in DOMAIN health_data.locations
    /\ health_data.locations[result.location].last_success = None
    /\ health_data.locations[result.location].failed_attempts = 2
    /\ result.now >= FreshnessHours * SecondsPerHour
    /\ result.value.status = "offline"

StaleCountKept ==
    \A l \in DOMAIN health_data.locations :
        /\ l \in DOMAIN health_data'.locations
        /\ health_data'.locations[l].stale_forecast_count
             >= health_data.locations[l].stale_forecast_count

NotOnlineOnceStale ==
    (result.op = "get_location_status"
        /\ Field(health_data, result.location, "stale_forecast_count", 0) > 0) =>
        result.value.status \in {"warning", "offline", "stale"}

HistoryOrdered ==
    \A l \in DOMAIN health_data.locations :
        LET h == health_data.locations[l].outage_history
            open == health_data.locations[l].current_outage_start
        IN  /\ \A i \in 1..Len(h) :
                  /\ h[i].start.t <= h[i].end.t
                  /\ h[i].duration_minutes >= 0
            /\ \A i \in 1..(Len(h) - 1) : h[i].end.t <= h[i + 1].start.t
            /\ (open # None /\ Len(h) > 0) => open.t >= h[Len(h)].end.t

\* a success that follows a failure of the same location is a recovery, and
\* each recovery adds one event
RecoveryStep ==
    AttemptStep =>
        LET l == result'.location
            recovery == result'.success /\ last_outcome[l] = "failure"
        IN  Len(Field(health_data', l, "outage_history", <<>>))
               = Len(Field(health_data, l, "outage_history", <<>>))
                   + (IF recovery THEN 1 ELSE 0)

\* C22: when the clock readings of successive record_attempt calls never
\* decrease, every outage_history is in time order without overlap: each
\* event has start <= end and duration_minutes >= 0, each event ends no later
\* than the next one starts, an open outage starts no earlier than the last
\* event ended, and there is one event per recovery (a run of failures ended
\* by a success).
C22_HistoryInTimeOrder == []HistoryOrdered /\ [][RecoveryStep]_vars

\* two recoveries of one location: a minute and a half down, up, down again
\* and up at once
C22_Witness ==
    \E l \in DOMAIN health_data.locations :
        /\ Len(health_data.locations[l].outage_history) = 2
        /\ health_data.locations[l].outage_history[1]
             = [start |-> Isoformat(0), end |-> Isoformat(90), duration_minutes |-> 1]
        /\ health_data.locations[l].outage_history[2].start = Isoformat(90)
        /\ health_data.locations[l].failed_attempts = 2

\* the clock did not step back while the report was built
ClockAdvancedInReport ==
    \A i \in 1..Len(result.detail_reads) : \A j \in 1..Len(result.alert_reads) :
        result.detail_reads[i] <= result.alert_reads[j]

ReportConsistent ==
    (result.op = "generate_report" /\ ~result.value.empty /\ ClockAdvancedInReport) =>
        LET details == result.value.details
            alerts == result.value.alerts
            alerting == {i \in 1..Len(details) : details[i].status \in AlertStatuses}
        IN  /\ \A i \in 1..Len(details) :
                  Cardinality({j \in 1..Len(alerts) :
                                   alerts[j].location = details[i].location})
                     = IF i \in alerting THEN 1 ELSE 0
            /\ \A i \in alerting : \A j \in 1..Len(alerts) :
                  alerts[j].location = details[i].location =>
                      /\ alerts[j].marker = AlertMarker(details[i].status)
                      /\ alerts[j].message = details[i].message
            /\ Len(alerts) = 0 <=> alerting = {}

\* C23: in one report the ACTIVE ALERTS block agrees with LOCATION DETAILS,
\* also when the clock advances while the report is built: a location has an
\* alert line iff its Status line shows OFFLINE, WARNING or STALE, the line
\* carries that status and the same message, and the block is left out
\* exactly when no location has such a status.
C23_AlertsMatchDetails == ReportConsistent

(* ---- a save that fails ---- *)

\* what a monitor constructed after a record_attempt whose save failed loads:
\* the store persisted before the call, or the store the call left in memory
FailedSaveKeepsHistory ==
    (AttemptStep /\ result'.outcome # "written") =>
        LoadHealthData(file').store \in {LoadHealthData(file).store, health_data'}

\* C24: after any record_attempt whose save fails, at open or part-way through
\* writing, a monitor constructed from the health file loads either the store
\* as it was persisted before that call or the store after that call, never an
\* empty or otherwise different store.
C24_FailedSaveKeepsHistory == [][FailedSaveKeepsHistory]_vars

(* ---- two monitors over one health file ---- *)

\* total_attempts of a location in a store, 0 when the store has no record of it
TotalIn(hd, l) ==
    IF l \in DOMAIN hd.locations THEN hd.locations[l].total_attempts ELSE 0

\* total_attempts of a location as a monitor constructed now would load it
PersistedTotal(f, l) == TotalIn(LoadHealthData(f).store, l)

\* the health file after a save holds the store of the monitor that saved:
\* the store it had in memory before the call, with the call's attempt added
SavedFrom(before, after, location) ==
    /\ LoadHealthData(file').store.keys = after.keys
    /\ \A l \in Locations :
          PersistedTotal(file', l) = TotalIn(before, l) + (IF l = location THEN 1 ELSE 0)

SaveWritesSaversView ==
    /\ AttemptStep => SavedFrom(health_data, health_data', result'.location)
    /\ peer'.calls = peer.calls + 1 =>
          SavedFrom(peer.health_data, peer'.health_data, result'.location)

\* while the other monitor has recorded nothing, the file counts every call
SingleInstanceCounts ==
    peer.calls = 0 => \A l \in Locations : PersistedTotal(file, l) = made[l]

\* C25: the store is read from the health file only at construction and every
\* save overwrites the whole document with the saving monitor's in-memory
\* store, so with two monitors interleaving record_attempt the document after
\* a save holds only the saver's view and the other monitor's attempts are
\* lost from it; with a single monitor the persisted total_attempts of every
\* location equals the number of record_attempt calls made for it.
C25_WholeStoreOverwritten == []SingleInstanceCounts /\ [][SaveWritesSaversView]_vars

\* the first monitor has just saved, and a location the other monitor recorded
\* an attempt for since is not in the health file any more
C25_Witness ==
    /\ result.op = "record_attempt"
    /\ file.kind = "json"
    /\ \E l \in Locations :
          /\ l \in DOMAIN peer.health_data.locations
          /\ l \notin DOMAIN health_data.locations
          /\ PersistedTotal(file, l) = 0
          /\ made[l] > 0

====
